---- MODULE Spec2Model ----
(***************************************************************************)
(* The compatibility layer of socketcan-rs: the raw CAN socket transport   *)
(* of the native (linux) module, the fail-fast stub (osx) module, the      *)
(* frame layouts and size constants, the filter structure and the          *)
(* platform selector of compatibility/mod.rs.                              *)
(***************************************************************************)
EXTENDS Integers, Sequences, FiniteSets, TLC

VARIABLES
    platform,   \* the build target: cfg(target_os) of compatibility/mod.rs
    kernel,     \* the file descriptors of the kernel sockets that are open
    handles,    \* the file descriptors owned by live socket handles of callers
    wire,       \* the bytes the socket has accepted and not yet delivered
    pend,       \* per thread, the read or write operation it is in the middle of
    last        \* the last operation: its arguments, its system calls, its result

vars == <<platform, kernel, handles, wire, pend, last>>

(***************************************************************************)
(* Bounds of the model.                                                    *)
(***************************************************************************)
\* the most system calls one read or write operation is followed through
MaxCalls == 2
\* the file descriptors the process may hold: 1..MaxSockets
MaxSockets == 1
\* the bytes the socket buffers at most: a write blocks while it is full
WireCap == 16
\* the threads that share the socket handles
MaxThreads == 2

(***************************************************************************)
(* Constants of compatibility/osx.rs.                                      *)
(***************************************************************************)
CAN_MAX_DLEN == 8
CANFD_MAX_DLEN == 64
CANXL_MAX_DLEN == 2048
CANXL_HDR_SIZE == 12
CAN_RAW == 1
SOL_CAN_BASE == 1048575
SOL_CAN_RAW == SOL_CAN_BASE + CAN_RAW
CAN_RAW_FILTER == 1
CAN_RAW_ERR_FILTER == 2
CAN_RAW_LOOPBACK == 3
CAN_RAW_FD_FRAMES == 5

(***************************************************************************)
(* Frame layouts: each structure is the sequence of its fields in declared *)
(* order, a field being its size and its alignment in bytes.               *)
(***************************************************************************)
Field(n, s, a) == [name |-> n, size |-> s, align |-> a]

can_frame ==
    << Field("can_id", 4, 4), Field("can_dlc", 1, 1), Field("pad", 1, 1),
       Field("res0", 1, 1), Field("len8_dlc", 1, 1),
       Field("data", CAN_MAX_DLEN, 1) >>

canfd_frame ==
    << Field("can_id", 4, 4), Field("len", 1, 1), Field("flags", 1, 1),
       Field("res0", 1, 1), Field("res1", 1, 1),
       Field("data", CANFD_MAX_DLEN, 1) >>

canxl_frame ==
    << Field("prio", 4, 4), Field("flags", 1, 1), Field("sdt", 1, 1),
       Field("len", 2, 2), Field("af", 4, 4),
       Field("data", CANXL_MAX_DLEN, 1) >>

Max(a, b) == IF a >= b THEN a ELSE b
Min(a, b) == IF a <= b THEN a ELSE b

RoundUp(n, a) == ((n + a - 1) \div a) * a

RECURSIVE StructAlign(_)
StructAlign(fields) ==
    IF fields = << >> THEN 1
    ELSE Max(Head(fields).align, StructAlign(Tail(fields)))

\* the offset past the last field when the fields are laid out one after the
\* other, each at the next offset that its alignment allows
RECURSIVE LayoutEnd(_, _)
LayoutEnd(fields, off) ==
    IF fields = << >> THEN off
    ELSE LayoutEnd(Tail(fields),
                   RoundUp(off, Head(fields).align) + Head(fields).size)

\* The structures carry no repr attribute, so the compiler chooses the order
\* of their fields: it groups the fields by the power of two in the larger of
\* a field's size and alignment, lays the largest group out first and keeps
\* the declared order inside a group.  The byte array comes first in each of
\* the three structures.
RECURSIVE trailing_zeros(_)
trailing_zeros(n) == IF n % 2 = 1 THEN 0 ELSE 1 + trailing_zeros(n \div 2)

alignment_group_key(f) == trailing_zeros(Max(f.align, f.size))

RECURSIVE MaxKey(_)
MaxKey(fields) ==
    IF fields = << >> THEN 0
    ELSE Max(alignment_group_key(Head(fields)), MaxKey(Tail(fields)))

RECURSIVE GroupsFrom(_, _)
GroupsFrom(fields, k) ==
    IF k < 0 THEN << >>
    ELSE SelectSeq(fields, LAMBDA f : alignment_group_key(f) = k)
             \o GroupsFrom(fields, k - 1)

layout_order(fields) == GroupsFrom(fields, MaxKey(fields))

\* the offset of the field called name when the fields are laid out in the
\* order given, from offset off on
RECURSIVE offset_of(_, _, _)
offset_of(fields, name, off) ==
    LET at == RoundUp(off, Head(fields).align)
    IN  IF Head(fields).name = name THEN at
        ELSE offset_of(Tail(fields), name, at + Head(fields).size)

\* size_of with every structure aligned to 8 bytes
size_of_align8(fields) == RoundUp(LayoutEnd(layout_order(fields), 0), 8)

\* core::mem::size_of of a structure: the end of the last field, rounded up
\* to the structure's alignment
size_of(fields) ==
    RoundUp(LayoutEnd(layout_order(fields), 0), StructAlign(fields))

RECURSIVE FieldSum(_)
FieldSum(fields) ==
    IF fields = << >> THEN 0
    ELSE Head(fields).size + FieldSum(Tail(fields))

CAN_MTU == size_of(can_frame)
CANFD_MTU == size_of(canfd_frame)
CANXL_MTU == size_of(canxl_frame)
CANXL_MIN_MTU == CANXL_HDR_SIZE + 64
CANXL_MAX_MTU == CANXL_MTU

(***************************************************************************)
(* Frame values and their byte representation.                             *)
(***************************************************************************)
RECURSIVE Zeros(_)
Zeros(n) == IF n = 0 THEN << >> ELSE Append(Zeros(n - 1), 0)

\* A 32-bit value (canid_t) is held as its two 16-bit halves.
U32(hi, lo) == [hi |-> hi, lo |-> lo]

\* crate::frame::can_frame_default: the all-zero classic frame
can_frame_default ==
    [can_id |-> U32(0, 0), can_dlc |-> 0, pad |-> 0, res0 |-> 0, len8_dlc |-> 0,
     data |-> Zeros(CAN_MAX_DLEN)]

\* the four bytes of a 32-bit value, least significant first
to_ne_bytes(x) ==
    << x.lo % 256, x.lo \div 256, x.hi % 256, x.hi \div 256 >>

from_ne_bytes(b) == U32(b[3] + 256 * b[4], b[1] + 256 * b[2])

\* The classic frame as the target lays it out.  On linux can_frame is the
\* C structure of the libc crate, its fields in declared order; on macos it is
\* the structure of osx.rs, its fields in the order the compiler chose.
frame_layout(target) ==
    IF target = "linux" THEN can_frame ELSE layout_order(can_frame)

field_bytes(f, name) ==
    IF name = "can_id" THEN to_ne_bytes(f.can_id)
    ELSE IF name = "data" THEN f.data
    ELSE << f[name] >>

\* the bytes of the frame f, field after field in the order given
RECURSIVE bytes_in(_, _)
bytes_in(fields, f) ==
    IF fields = << >> THEN << >>
    ELSE field_bytes(f, Head(fields).name) \o bytes_in(Tail(fields), f)

field_at(fields, b, name, n) ==
    SubSeq(b, offset_of(fields, name, 0) + 1, offset_of(fields, name, 0) + n)

\* the frame whose storage, laid out in the order given, holds the bytes b
frame_in(fields, b) ==
    [can_id |-> from_ne_bytes(field_at(fields, b, "can_id", 4)),
     can_dlc |-> field_at(fields, b, "can_dlc", 1)[1],
     pad |-> field_at(fields, b, "pad", 1)[1],
     res0 |-> field_at(fields, b, "res0", 1)[1],
     len8_dlc |-> field_at(fields, b, "len8_dlc", 1)[1],
     data |-> field_at(fields, b, "data", CAN_MAX_DLEN)]

\* AsPtr::as_bytes: the frame structure seen as its bytes
as_bytes(f) == bytes_in(frame_layout(platform), f)

\* the frame structure whose storage as_bytes_mut exposed, once it holds the
\* bytes b
frame_of_bytes(b) == frame_in(frame_layout(platform), b)

\* as_bytes_mut: the storage of a frame as a mutable byte slice
as_bytes_mut(f) == as_bytes(f)

(***************************************************************************)
(* The frames the callers write.                                           *)
(***************************************************************************)
\* a two-byte frame with the standard identifier 0x123, and an eight-byte
\* frame with the extended identifier 0xC0000123 (0x123 with CAN_EFF_FLAG and
\* CAN_RTR_FLAG), its three bytes after can_dlc set
Frames ==
    { [can_id |-> U32(0, 291), can_dlc |-> 2, pad |-> 0, res0 |-> 0,
       len8_dlc |-> 0, data |-> <<170, 187>> \o Zeros(CAN_MAX_DLEN - 2)],
      [can_id |-> U32(49152, 291), can_dlc |-> 8, pad |-> 1, res0 |-> 2,
       len8_dlc |-> 3, data |-> <<17, 34, 51, 68, 85, 102, 119, 255>>] }

(***************************************************************************)
(* What one system call on the socket returns: a byte count or an error.   *)
(***************************************************************************)
Ok(n) == [ok |-> TRUE, n |-> n, err |-> "none"]
Err(e) == [ok |-> FALSE, n |-> 0, err |-> e]

Chunks == {0, 8, CAN_MTU}
Errors == {"EINTR", "EIO"}
Outcomes == {Ok(n) : n \in Chunks} \cup {Err(e) : e \in Errors}

\* std::io::Error::is_interrupted
is_interrupted(e) == e = "EINTR"

Call(sys, fd, arg, ret) == [sys |-> sys, fd |-> fd, arg |-> arg, ret |-> ret]

(***************************************************************************)
(* Write::write_all on the socket, as write_raw_frame calls it: one pass   *)
(* of its loop over the bytes buf still to write, in which the write call  *)
(* returns o.  state is "more" when the loop goes round again.             *)
(***************************************************************************)
\* a write_all that is content with the first write that takes bytes
write_once_step(fd, buf, o) ==
    LET n == Min(o.n, Len(buf))
        call == Call("write", fd, buf, IF o.ok THEN Ok(n) ELSE o)
    IN  IF o.ok /\ n = 0
        THEN [state |-> "Err", err |-> "WriteZero", n |-> 0, call |-> call]
        ELSE IF o.ok
        THEN [state |-> "Ok", err |-> "none", n |-> n, call |-> call]
        ELSE IF is_interrupted(o.err)
        THEN [state |-> "more", err |-> "none", n |-> 0, call |-> call]
        ELSE [state |-> "Err", err |-> o.err, n |-> 0, call |-> call]

write_all_step(fd, buf, o) ==
    LET n == Min(o.n, Len(buf))
        call == Call("write", fd, buf, IF o.ok THEN Ok(n) ELSE o)
    IN  IF o.ok /\ n = 0
        THEN [state |-> "Err", err |-> "WriteZero", n |-> 0, call |-> call]
        ELSE IF o.ok
        THEN [state |-> IF n = Len(buf) THEN "Ok" ELSE "more",
              err |-> "none", n |-> n, call |-> call]
        ELSE IF is_interrupted(o.err)
        THEN [state |-> "more", err |-> "none", n |-> 0, call |-> call]
        ELSE [state |-> "Err", err |-> o.err, n |-> 0, call |-> call]

(***************************************************************************)
(* Read::read_exact on the socket, as read_raw_frame calls it: one pass of *)
(* its loop, in which the read call returns o.  need bytes of the buffer   *)
(* are still to fill and rx are the bytes the socket holds.  The call is   *)
(* logged with the bytes it delivered.                                     *)
(***************************************************************************)
\* a read_exact that is content with the first read that delivers bytes
read_once_step(fd, need, rx, o) ==
    LET n == IF o.ok THEN Min(o.n, Min(need, Len(rx))) ELSE 0
        data == SubSeq(rx, 1, n)
        call == Call("read", fd, [need |-> need, data |-> data],
                     IF o.ok THEN Ok(n) ELSE o)
    IN  IF o.ok /\ n = 0
        THEN [state |-> "Err", err |-> "UnexpectedEof", n |-> 0,
              data |-> data, call |-> call]
        ELSE IF o.ok
        THEN [state |-> "Ok", err |-> "none", n |-> n, data |-> data,
              call |-> call]
        ELSE IF is_interrupted(o.err)
        THEN [state |-> "more", err |-> "none", n |-> 0, data |-> data,
              call |-> call]
        ELSE [state |-> "Err", err |-> o.err, n |-> 0, data |-> data,
              call |-> call]

read_exact_step(fd, need, rx, o) ==
    LET n == IF o.ok THEN Min(o.n, Min(need, Len(rx))) ELSE 0
        data == SubSeq(rx, 1, n)
        call == Call("read", fd, [need |-> need, data |-> data],
                     IF o.ok THEN Ok(n) ELSE o)
    IN  IF o.ok /\ n = 0
        THEN [state |-> "Err", err |-> "UnexpectedEof", n |-> 0,
              data |-> data, call |-> call]
        ELSE IF o.ok
        THEN [state |-> IF n = need THEN "Ok" ELSE "more", err |-> "none",
              n |-> n, data |-> data, call |-> call]
        ELSE IF is_interrupted(o.err)
        THEN [state |-> "more", err |-> "none", n |-> 0, data |-> data,
              call |-> call]
        ELSE [state |-> "Err", err |-> o.err, n |-> 0, data |-> data,
              call |-> call]

(***************************************************************************)
(* The result of an operation: what it returned (result, err, value), the  *)
(* system calls it issued in order, and what it left of the state.         *)
(***************************************************************************)
NoValue == [none |-> TRUE]

Panic == [result |-> "panic", err |-> "Not supported outside of Linux",
          value |-> NoValue, calls |-> << >>]

(***************************************************************************)
(* compatibility/linux.rs                                                  *)
(***************************************************************************)
\* raw_open_socket that forgets the socket when bind fails
raw_open_socket_leak(addr, s, b) ==
    LET c1 == << Call("socket", 0, <<"AF_CAN", "SOCK_RAW", "CAN_RAW">>, s) >>
        c2 == Append(c1, Call("bind", s.n, addr, b))
    IN  IF ~s.ok
        THEN [result |-> "Err", err |-> s.err, value |-> NoValue,
              calls |-> c1, opened |-> {}, handle |-> {}]
        ELSE IF ~b.ok
        THEN [result |-> "Err", err |-> b.err, value |-> NoValue,
              calls |-> c2, opened |-> {s.n}, handle |-> {}]
        ELSE [result |-> "Ok", err |-> "none", value |-> [fd |-> s.n],
              calls |-> c2, opened |-> {s.n}, handle |-> {s.n}]

\* raw_open_socket: s is what socket(2) returns (the new descriptor, or an
\* error), b what bind(2) returns.  opened is the descriptor the call leaves
\* open in the kernel, handle the one returned to the caller.
linux_raw_open_socket(addr, s, b) ==
    LET c1 == << Call("socket", 0, <<"AF_CAN", "SOCK_RAW", "CAN_RAW">>, s) >>
        c2 == Append(c1, Call("bind", s.n, addr, b))
    IN  IF ~s.ok
        THEN [result |-> "Err", err |-> s.err, value |-> NoValue,
              calls |-> c1, opened |-> {}, handle |-> {}]
        ELSE IF ~b.ok
        THEN [result |-> "Err", err |-> b.err, value |-> NoValue,
              calls |-> Append(c2, Call("close", s.n, << >>, Ok(0))),
              opened |-> {}, handle |-> {}]
        ELSE [result |-> "Ok", err |-> "none", value |-> [fd |-> s.n],
              calls |-> c2, opened |-> {s.n}, handle |-> {s.n}]

\* setsockopt_wrapper: ret is what the native setsockopt returns
linux_setsockopt_wrapper(socket, level, name, value, option_len, ret) ==
    [result |-> "Ok", err |-> "none", value |-> [ret |-> ret.n],
     calls |-> << Call("setsockopt", socket,
                       <<level, name, value, option_len>>, ret) >>]

\* An invocation of read_raw_frame or write_raw_frame that a thread is in:
\* the frame and the buffer it works on, the bytes read so far, the system
\* calls issued so far.
Idle ==
    [op |-> "idle", fd |-> 0, frame |-> NoValue, buf |-> << >>, got |-> << >>,
     calls |-> << >>]

\* CanSocket::read_raw_frame up to its first system call
read_raw_frame_begin(fd) ==
    [op |-> "read_raw_frame", fd |-> fd, frame |-> can_frame_default,
     buf |-> as_bytes_mut(can_frame_default), got |-> << >>, calls |-> << >>]

\* CanSocket::read_raw_frame: the next read call of the invocation cur, on a
\* socket that holds the bytes rx, returns o
linux_read_raw_frame(cur, rx, o) ==
    LET r == read_exact_step(cur.fd, Len(cur.buf) - Len(cur.got), rx, o)
        got == cur.got \o r.data
        calls == Append(cur.calls, r.call)
        filled == got \o SubSeq(cur.buf, Len(got) + 1, Len(cur.buf))
    IN  [done |-> r.state # "more", result |-> r.state, err |-> r.err,
         value |-> IF r.state = "Ok" THEN frame_of_bytes(filled)
                   ELSE NoValue,
         calls |-> calls, rx |-> SubSeq(rx, r.n + 1, Len(rx)),
         next |-> [cur EXCEPT !.got = got, !.calls = calls]]

\* CanSocket::write_raw_frame up to its first system call
write_raw_frame_begin(fd, frame) ==
    [op |-> "write_raw_frame", fd |-> fd, frame |-> frame,
     buf |-> as_bytes(frame), got |-> << >>, calls |-> << >>]

\* CanSocket::write_raw_frame: the next write call of the invocation cur
\* returns o
linux_write_raw_frame(cur, o) ==
    LET r == write_all_step(cur.fd, cur.buf, o)
        calls == Append(cur.calls, r.call)
    IN  [done |-> r.state # "more", result |-> r.state, err |-> r.err,
         value |-> NoValue, calls |-> calls,
         accepted |-> SubSeq(cur.buf, 1, r.n),
         next |-> [cur EXCEPT !.buf = SubSeq(cur.buf, r.n + 1, Len(cur.buf)),
                              !.calls = calls]]

(***************************************************************************)
(* compatibility/osx.rs                                                    *)
(***************************************************************************)
osx_raw_open_socket(addr) == Panic

\* read_raw_frame that reads from the descriptor
read_raw_frame_native(fd) ==
    [result |-> "Err", err |-> "ENOTSOCK", value |-> NoValue,
     calls |-> << Call("read", fd, [need |-> CAN_MTU, data |-> << >>],
                       Err("ENOTSOCK")) >>]

osx_read_raw_frame(fd) == Panic

osx_write_raw_frame(fd, frame) == Panic

\* setsockopt_wrapper that guards the base level instead of the raw level
setsockopt_wrapper_base(socket, level, name, value, option_len, ret) ==
    IF SOL_CAN_BASE = level
    THEN Panic
    ELSE [result |-> "Ok", err |-> "none", value |-> [ret |-> ret.n],
          calls |-> << Call("setsockopt", socket,
                            <<level, name, value, option_len>>, ret) >>]

osx_setsockopt_wrapper(socket, level, name, value, option_len, ret) ==
    IF SOL_CAN_RAW = level
    THEN Panic
    ELSE [result |-> "Ok", err |-> "none", value |-> [ret |-> ret.n],
          calls |-> << Call("setsockopt", socket,
                            <<level, name, value, option_len>>, ret) >>]

\* an equality that looks at the identifier only
can_filter_eq_id(a, b) == a.can_id = b.can_id

\* derive(PartialEq) of can_filter
can_filter_eq(a, b) == a.can_id = b.can_id /\ a.can_mask = b.can_mask

\* derive(Hash) of can_filter: the bytes the structure feeds the hasher
can_filter_hash(a) == to_ne_bytes(a.can_id) \o to_ne_bytes(a.can_mask)

(***************************************************************************)
(* The names each module exports to the crate.                             *)
(***************************************************************************)
linux_exports == {
    "can_frame", "canfd_frame", "canxl_frame", "can_filter", "sockaddr_can",
    "canid_t", "can_err_mask_t", "CAN_EFF_FLAG", "CAN_RTR_FLAG",
    "CAN_ERR_FLAG", "CAN_SFF_MASK", "CAN_EFF_MASK", "CAN_ERR_MASK",
    "CAN_MAX_DLC", "CAN_MAX_DLEN", "CANFD_MAX_DLC", "CANFD_MAX_DLEN",
    "CANFD_BRS", "CANFD_ESI", "CANFD_FDF", "CAN_MTU", "CANFD_MTU", "CAN_RAW",
    "CAN_BCM", "CAN_TP16", "CAN_TP20", "CAN_MCNET", "CAN_ISOTP", "CAN_J1939",
    "CAN_NPROTO", "AF_CAN", "PF_CAN", "SOL_CAN_BASE", "SOL_CAN_RAW",
    "CAN_RAW_FILTER", "CAN_RAW_ERR_FILTER", "CAN_RAW_LOOPBACK",
    "CAN_RAW_RECV_OWN_MSGS", "CAN_RAW_FD_FRAMES", "CAN_RAW_JOIN_FILTERS",
    "CAN_RAW_FILTER_MAX", "CAN_INV_FILTER", "c_int", "c_void", "socklen_t",
    "raw_open_socket", "setsockopt_wrapper", "CanSocket::read_raw_frame",
    "CanSocket::write_raw_frame" }

osx_exports == {
    "CAN_EFF_FLAG", "CAN_RTR_FLAG", "CAN_ERR_FLAG", "CAN_SFF_MASK",
    "CAN_EFF_MASK", "CAN_ERR_MASK", "CANXL_PRIO_MASK", "CAN_SFF_ID_BITS",
    "CAN_EFF_ID_BITS", "CANXL_PRIO_BITS", "can_err_mask_t", "CAN_MAX_DLC",
    "CAN_MAX_DLEN", "CANFD_MAX_DLC", "CANFD_MAX_DLEN", "CANXL_MIN_DLC",
    "CANXL_MAX_DLC", "CANXL_MAX_DLC_MASK", "CANXL_MIN_DLEN",
    "CANXL_MAX_DLEN", "CAN_INV_FILTER", "can_frame", "CANFD_BRS",
    "CANFD_ESI", "CANFD_FDF", "canfd_frame", "CANXL_XLF", "CANXL_SEC",
    "canxl_frame", "CAN_MTU", "CANFD_MTU", "CANXL_MTU", "CANXL_HDR_SIZE",
    "CANXL_MIN_MTU", "CANXL_MAX_MTU", "CAN_RAW", "CAN_BCM", "CAN_TP16",
    "CAN_TP20", "CAN_MCNET", "CAN_ISOTP", "CAN_J1939", "CAN_NPROTO",
    "SOL_CAN_BASE", "AF_CAN", "PF_CAN", "SOL_CAN_RAW", "CAN_RAW_FILTER_MAX",
    "CAN_RAW_FILTER", "CAN_RAW_ERR_FILTER", "CAN_RAW_LOOPBACK",
    "CAN_RAW_RECV_OWN_MSGS", "CAN_RAW_FD_FRAMES", "CAN_RAW_JOIN_FILTERS",
    "CAN_RAW_XL_FRAMES", "canid_t", "sockaddr_can",
    "__c_anonymous_sockaddr_can_can_addr", "__c_anonymous_sockaddr_can_tp",
    "__c_anonymous_sockaddr_can_j1939", "can_filter",
    "raw_open_socket", "setsockopt_wrapper", "CanSocket::read_raw_frame",
    "CanSocket::write_raw_frame" }

\* compatibility/mod.rs: the module whose names the build target re-exports
compatibility(target) ==
    IF target = "linux" THEN linux_exports
    ELSE IF target = "macos" THEN osx_exports
    ELSE {}

(***************************************************************************)
(* The inputs of the operations.                                           *)
(***************************************************************************)
Targets == {"linux", "macos"}
Fds == 1..MaxSockets
Threads == 1..MaxThreads

\* the interface indexes that exist; index 0 binds to every interface
Interfaces == {1}
Addrs == {[can_ifindex |-> i] : i \in {0, 1, 2}}

SocketOutcomes == {Ok(fd) : fd \in Fds} \cup {Err("EMFILE"), Err("EINTR")}
BindOutcomes == {Ok(0), Err("ENODEV"), Err("EINTR")}

\* what the native setsockopt returns
SetsockoptOutcomes == {Ok(0), [ok |-> FALSE, n |-> -1, err |-> "ENOPROTOOPT"]}
Levels == {65535, SOL_CAN_BASE, SOL_CAN_RAW, SOL_CAN_RAW + 1}
OptNames ==
    {CAN_RAW_FILTER, CAN_RAW_ERR_FILTER, CAN_RAW_LOOPBACK, CAN_RAW_FD_FRAMES}
OptValues == {0, 1}
OptLens == {4, 8}

Filters ==
    {[can_id |-> i, can_mask |-> m] :
        i \in {U32(0, 291), U32(32768, 291)},
        m \in {U32(0, 2047), U32(8191, 65535)}}

Names == linux_exports \cup osx_exports \cup {"CanAddr"}

Last(op, arg, r) ==
    [op |-> op, arg |-> arg, result |-> r.result, err |-> r.err,
     value |-> r.value, calls |-> r.calls]

\* the descriptor socket(2) allocates: the lowest one that is free
LowestFree(open) == CHOOSE fd \in Fds \ open : \A g \in Fds \ open : fd <= g

Init ==
    /\ platform \in Targets
    /\ kernel = {}
    /\ handles = {}
    /\ wire = << >>
    /\ pend = [t \in Threads |-> Idle]
    /\ last = [op |-> "none", arg |-> NoValue, result |-> "none",
               err |-> "none", value |-> NoValue, calls |-> << >>]

(***************************************************************************)
(* The operations.  read_raw_frame and write_raw_frame take one step per   *)
(* system call, so that the calls of two threads on one socket interleave. *)
(***************************************************************************)
RawOpenSocket(addr, s, b) ==
    /\ IF platform = "linux"
       THEN /\ s.ok => (Fds \ kernel # {} /\ s.n = LowestFree(kernel))
            /\ (Fds \ kernel = {}) => s.err = "EMFILE"
            /\ b.ok => addr.can_ifindex \in Interfaces \cup {0}
            /\ (b.err = "ENODEV") <=>
                   (addr.can_ifindex \notin Interfaces \cup {0})
            /\ LET r == linux_raw_open_socket(addr, s, b)
               IN  /\ kernel' = kernel \cup r.opened
                   /\ handles' = handles \cup r.handle
                   /\ last' = Last("raw_open_socket", addr, r)
       ELSE /\ last' = Last("raw_open_socket", addr, osx_raw_open_socket(addr))
            /\ UNCHANGED <<kernel, handles>>
    /\ UNCHANGED <<platform, wire, pend>>

\* the handle's lifetime ends, which no borrow of it outlives: the socket it
\* owns is closed
DropSocket(h) ==
    /\ h \in handles
    /\ \A t \in Threads : pend[t].fd # h
    /\ kernel' = kernel \ {h}
    /\ handles' = handles \ {h}
    /\ last' = [op |-> "drop", arg |-> [fd |-> h], result |-> "Ok",
                err |-> "none", value |-> NoValue,
                calls |-> << Call("close", h, << >>, Ok(0)) >>]
    /\ UNCHANGED <<platform, wire, pend>>

\* thread t calls read_raw_frame on h, or is in it, and its next read call
\* returns o: bytes when the socket holds some, 0 when the peer has closed
ReadRawFrame(t, h, o) ==
    /\ IF platform = "linux"
       THEN LET cur == IF pend[t].op = "idle" THEN read_raw_frame_begin(h)
                       ELSE pend[t]
                r == linux_read_raw_frame(cur, wire, o)
            IN  /\ \/ pend[t].op = "idle" /\ h \in handles
                   \/ pend[t].op = "read_raw_frame" /\ pend[t].fd = h
                /\ o.ok => ((o.n = 0) <=> (wire = << >>))
                /\ ~r.done => Len(r.calls) < MaxCalls
                /\ wire' = r.rx
                /\ IF r.done
                   THEN /\ pend' = [pend EXCEPT ![t] = Idle]
                        /\ last' = Last("read_raw_frame", [fd |-> h], r)
                   ELSE /\ pend' = [pend EXCEPT ![t] = r.next]
                        /\ UNCHANGED last
       ELSE /\ pend[t].op = "idle"
            /\ last' = Last("read_raw_frame", [fd |-> h], osx_read_raw_frame(h))
            /\ UNCHANGED <<wire, pend>>
    /\ UNCHANGED <<platform, kernel, handles>>

\* thread t calls write_raw_frame on h, or is in it, and its next write call
\* returns o: the socket takes no more bytes than it has room for
WriteRawFrame(t, h, frame, o) ==
    /\ IF platform = "linux"
       THEN LET cur == IF pend[t].op = "idle"
                       THEN write_raw_frame_begin(h, frame)
                       ELSE pend[t]
                r == linux_write_raw_frame(cur, o)
            IN  /\ \/ pend[t].op = "idle" /\ h \in handles
                   \/ /\ pend[t].op = "write_raw_frame"
                      /\ pend[t].fd = h /\ pend[t].frame = frame
                /\ Len(wire) + Len(r.accepted) <= WireCap
                /\ ~r.done => Len(r.calls) < MaxCalls
                /\ wire' = wire \o r.accepted
                /\ IF r.done
                   THEN /\ pend' = [pend EXCEPT ![t] = Idle]
                        /\ last' = Last("write_raw_frame",
                                        [fd |-> h, frame |-> frame], r)
                   ELSE /\ pend' = [pend EXCEPT ![t] = r.next]
                        /\ UNCHANGED last
       ELSE /\ pend[t].op = "idle"
            /\ last' = Last("write_raw_frame", [fd |-> h, frame |-> frame],
                            osx_write_raw_frame(h, frame))
            /\ UNCHANGED <<wire, pend>>
    /\ UNCHANGED <<platform, kernel, handles>>

SetsockoptWrapper(socket, level, name, value, option_len, ret) ==
    /\ last' = Last("setsockopt_wrapper",
                    [socket |-> socket, level |-> level, name |-> name,
                     value |-> value, option_len |-> option_len],
                    IF platform = "linux"
                    THEN linux_setsockopt_wrapper(socket, level, name, value,
                                                  option_len, ret)
                    ELSE osx_setsockopt_wrapper(socket, level, name, value,
                                                option_len, ret))
    /\ UNCHANGED <<platform, kernel, handles, wire, pend>>

\* the crate names an item of the compatibility module
UseName(name) ==
    /\ last' = [op |-> "use", arg |-> [name |-> name],
                result |-> IF name \in compatibility(platform)
                           THEN "Ok" ELSE "unresolved",
                err |-> "none", value |-> NoValue, calls |-> << >>]
    /\ UNCHANGED <<platform, kernel, handles, wire, pend>>

\* two filters are compared and hashed
CompareFilters(a, b) ==
    /\ last' = [op |-> "can_filter", arg |-> [a |-> a, b |-> b],
                result |-> "Ok", err |-> "none",
                value |-> [eq |-> can_filter_eq(a, b),
                           hash_a |-> can_filter_hash(a),
                           hash_b |-> can_filter_hash(b)],
                calls |-> << >>]
    /\ UNCHANGED <<platform, kernel, handles, wire, pend>>

OpenStep ==
    \E addr \in Addrs, s \in SocketOutcomes, b \in BindOutcomes :
        RawOpenSocket(addr, s, b)

DropStep == \E h \in Fds : DropSocket(h)

ReadStep ==
    \E t \in Threads, h \in Fds, o \in Outcomes : ReadRawFrame(t, h, o)

WriteStep ==
    \E t \in Threads, h \in Fds, frame \in Frames, o \in Outcomes :
        WriteRawFrame(t, h, frame, o)

\* the same, of a caller that is one thread
SoloReadStep == \E h \in Fds, o \in Outcomes : ReadRawFrame(1, h, o)

SoloWriteStep ==
    \E h \in Fds, frame \in Frames, o \in Outcomes :
        WriteRawFrame(1, h, frame, o)

SetsockoptStep ==
    \E socket \in Fds, level \in Levels, name \in OptNames,
       value \in OptValues, option_len \in OptLens,
       ret \in SetsockoptOutcomes :
        SetsockoptWrapper(socket, level, name, value, option_len, ret)

UseStep == \E name \in Names : UseName(name)

CompareStep == \E a \in Filters, b \in Filters : CompareFilters(a, b)

\* every operation of the layer, on either build target
Next ==
    \/ OpenStep
    \/ DropStep
    \/ ReadStep
    \/ WriteStep
    \/ SetsockoptStep
    \/ UseStep
    \/ CompareStep

Spec == Init /\ [][Next]_vars

\* the raw socket transport, its handles shared by the threads: open, drop,
\* read and write
TransportNext ==
    \/ OpenStep
    \/ DropStep
    \/ ReadStep
    \/ WriteStep

SpecTransport == Init /\ [][TransportNext]_vars

\* the raw socket transport with one thread calling it
SoloNext ==
    \/ OpenStep
    \/ DropStep
    \/ SoloReadStep
    \/ SoloWriteStep

SpecSolo == Init /\ [][SoloNext]_vars

\* the operations a build for the non-supporting target can call: no handle
\* is ever opened there, so none is dropped
StubInit == Init /\ platform = "macos"

StubNext ==
    \/ OpenStep
    \/ ReadStep
    \/ WriteStep
    \/ SetsockoptStep

SpecStub == StubInit /\ [][StubNext]_vars

\* the names, the option wrapper and the filters: what does not touch a socket's
\* bytes
SurfaceNext ==
    \/ SetsockoptStep
    \/ UseStep
    \/ CompareStep

SpecSurface == Init /\ [][SurfaceNext]_vars


(***************************************************************************)
(* What the last operation did, read off its log of system calls.          *)
(***************************************************************************)
Native == platform = "linux"
Stub == platform = "macos"

\* the calls of the log that moved bytes
Moving(calls) == {i \in DOMAIN calls : calls[i].ret.ok /\ calls[i].ret.n > 0}

RECURSIVE Moved(_)
Moved(calls) ==
    IF calls = << >> THEN 0
    ELSE (IF Head(calls).ret.ok THEN Head(calls).ret.n ELSE 0)
             + Moved(Tail(calls))

\* the bytes the read calls of the log delivered, in order
RECURSIVE Delivered(_)
Delivered(calls) ==
    IF calls = << >> THEN << >>
    ELSE Head(calls).arg.data \o Delivered(Tail(calls))

(***************************************************************************)
(* C1: write_raw_frame transmits the complete byte representation of the   *)
(* frame or fails, a short write is a failure, and the frame is never      *)
(* split across two writes: at most one write call takes bytes of it.      *)
(***************************************************************************)
C1_WriteNeverSplit ==
    (Native /\ last.op = "write_raw_frame") =>
        /\ last.result = "Ok" => Moved(last.calls) = CAN_MTU
        /\ \A i \in DOMAIN last.calls :
              (last.calls[i].ret.ok /\ last.calls[i].ret.n < Len(last.calls[i].arg))
                  => last.result = "Err"
        /\ Cardinality(Moving(last.calls)) <= 1

(***************************************************************************)
(* C2: read_raw_frame is all or nothing.  When the socket delivers fewer   *)
(* than CAN_MTU bytes to the call (the peer closes first), the call fails  *)
(* and returns no frame; it returns a frame only when exactly CAN_MTU      *)
(* bytes were read, and the frame is made of those bytes.                  *)
(***************************************************************************)
C2_ReadAllOrNothing ==
    (Native /\ last.op = "read_raw_frame") =>
        /\ last.result \in {"Ok", "Err"}
        /\ Moved(last.calls) < 16 => last.result = "Err"
        /\ last.result = "Err" => last.value = NoValue
        /\ last.result = "Ok" =>
              /\ Moved(last.calls) = 16
              /\ Len(Delivered(last.calls)) = 16
              /\ as_bytes(last.value) = Delivered(last.calls)

C2_Witness ==
    /\ Native
    /\ last.op = "read_raw_frame"
    /\ last.result = "Err"
    /\ last.err = "UnexpectedEof"
    /\ Moved(last.calls) = 8
    /\ last.value = NoValue

(***************************************************************************)
(* C3: no transport operation retries.  The first failure a system call    *)
(* reports, of any kind, is the result of the operation, and the operation *)
(* issues no further call after it (but the close that releases a socket). *)
(***************************************************************************)
C3_NoInternalRetry ==
    (Native /\ last.op \in {"raw_open_socket", "read_raw_frame",
                             "write_raw_frame"}) =>
        \A i \in DOMAIN last.calls :
            ~last.calls[i].ret.ok =>
                /\ last.result = "Err"
                /\ last.err = last.calls[i].ret.err
                /\ \A j \in DOMAIN last.calls :
                      j > i => last.calls[j].sys = "close"

(***************************************************************************)
(* C4: on the non-supporting platform raw_open_socket, read_raw_frame,     *)
(* write_raw_frame, and setsockopt_wrapper at level SOL_CAN_RAW fail       *)
(* fatally whatever their arguments and whatever was called before, issue  *)
(* no system call and return no value.                                     *)
(***************************************************************************)
C4_StubAlwaysPanics ==
    (/\ Stub
     /\ \/ last.op \in {"raw_open_socket", "read_raw_frame", "write_raw_frame"}
        \/ (last.op = "setsockopt_wrapper" /\ last.arg.level = SOL_CAN_RAW))
    => /\ last.result = "panic"
       /\ last.calls = << >>
       /\ last.value = NoValue
       /\ kernel = {} /\ handles = {} /\ wire = << >>
       /\ \A t \in Threads : pend[t] = Idle

C4_Witness ==
    /\ Stub
    /\ last.op = "read_raw_frame"
    /\ last.result = "panic"
    /\ last.calls = << >>

(***************************************************************************)
(* C5: raw_open_socket creates a socket and then binds it and leaks        *)
(* nothing.  If socket creation fails, no bind is attempted; if bind       *)
(* fails, the socket is closed before the failure is returned; only a      *)
(* successful bind returns a handle.  The open kernel sockets are always   *)
(* exactly the sockets of live handles.                                    *)
(***************************************************************************)
C5_OpenLeaksNothing ==
    /\ kernel = handles
    /\ Cardinality(kernel) = Cardinality(handles)
    /\ (Native /\ last.op = "raw_open_socket") =>
          LET c == last.calls
              fd == c[1].ret.n
          IN  /\ Len(c) >= 1
              /\ c[1].sys = "socket"
              /\ ~c[1].ret.ok =>
                    /\ Len(c) = 1
                    /\ last.result = "Err" /\ last.value = NoValue
              /\ c[1].ret.ok =>
                    /\ Len(c) >= 2
                    /\ c[2].sys = "bind" /\ c[2].fd = fd
                    /\ c[2].arg = last.arg
                    /\ c[2].ret.ok =>
                          /\ Len(c) = 2
                          /\ last.result = "Ok" /\ last.value = [fd |-> fd]
                          /\ fd \in handles /\ fd \in kernel
                    /\ ~c[2].ret.ok =>
                          /\ Len(c) = 3
                          /\ c[3].sys = "close" /\ c[3].fd = fd
                          /\ last.result = "Err" /\ last.value = NoValue
                          /\ fd \notin kernel /\ fd \notin handles

C5_Witness ==
    /\ Native
    /\ last.op = "raw_open_socket"
    /\ last.arg.can_ifindex = 2
    /\ last.result = "Err"
    /\ last.err = "ENODEV"
    /\ Len(last.calls) = 3
    /\ kernel = {} /\ handles = {}

(***************************************************************************)
(* C6: the two modules export the same names: a name the crate uses        *)
(* resolves on the build target if and only if it resolves on the other.   *)
(***************************************************************************)
C6_SameSurface ==
    last.op = "use" =>
        \A t \in Targets :
            (last.result = "Ok") <=> (last.arg.name \in compatibility(t))

(***************************************************************************)
(* C7: each size constant is the sum of the field sizes of its structure,  *)
(* with no padding: CAN_MTU = 16, CANFD_MTU = 72, CANXL_MTU = 12 + 2048,   *)
(* CANXL_HDR_SIZE = 12, CANXL_MIN_MTU and CANXL_MAX_MTU are the header     *)
(* plus 64 and plus 2048; and a frame is handed to the socket as CAN_MTU   *)
(* bytes.                                                                  *)
(***************************************************************************)
C7_SizeConstants ==
    /\ CAN_MTU = 4 + 1 + 1 + 1 + 1 + 8 /\ CAN_MTU = 16
    /\ CAN_MTU = FieldSum(can_frame)
    /\ CANFD_MTU = 4 + 1 + 1 + 1 + 1 + 64 /\ CANFD_MTU = 72
    /\ CANFD_MTU = FieldSum(canfd_frame)
    /\ CANXL_HDR_SIZE = 4 + 1 + 1 + 2 + 4 /\ CANXL_HDR_SIZE = 12
    /\ CANXL_MTU = CANXL_HDR_SIZE + CANXL_MAX_DLEN /\ CANXL_MTU = 12 + 2048
    /\ CANXL_MTU = FieldSum(canxl_frame)
    /\ CANXL_MIN_MTU = CANXL_HDR_SIZE + 64
    /\ CANXL_MAX_MTU = CANXL_HDR_SIZE + 2048
    /\ (Native /\ last.op = "write_raw_frame") =>
          Len(last.calls[1].arg) = CAN_MTU

C7_Witness ==
    /\ Native
    /\ last.op = "write_raw_frame"
    /\ last.result = "Ok"
    /\ Len(last.calls[1].arg) = 16
    /\ Len(wire) = FieldSum(can_frame)

(***************************************************************************)
(* C8: round trip.  A frame that one caller writes whole to an empty       *)
(* socket and reads back at once is the frame that was written, in every   *)
(* field, the bytes after can_dlc included, and it is CAN_MTU bytes long;  *)
(* the same holds of its bytes in the layout of either target.             *)
(***************************************************************************)
C8_RoundTrip ==
    [][ ( /\ Native
          /\ last.op = "write_raw_frame" /\ last.result = "Ok"
          /\ Len(wire) + Len(pend[1].got) = 16
          /\ last'.op = "read_raw_frame" /\ last'.result = "Ok" )
        => ( /\ last'.value = last.arg.frame
             /\ Len(as_bytes(last'.value)) = 16
             /\ wire' = << >>
             /\ \A t \in Targets :
                   /\ Len(bytes_in(frame_layout(t), last'.value)) = CAN_MTU
                   /\ frame_in(frame_layout(t),
                               bytes_in(frame_layout(t), last'.value))
                          = last'.value ) ]_vars

C8_Witness ==
    /\ Native
    /\ last.op = "read_raw_frame"
    /\ last.result = "Ok"
    /\ last.value = [can_id |-> U32(0, 291), can_dlc |-> 2, pad |-> 0,
                     res0 |-> 0, len8_dlc |-> 0,
                     data |-> <<170, 187, 0, 0, 0, 0, 0, 0>>]
    /\ wire = << >>

(***************************************************************************)
(* C9: two filters are equal if and only if their can_id are equal and     *)
(* their can_mask are equal, and equal filters hash identically.           *)
(***************************************************************************)
C9_FilterEqHash ==
    last.op = "can_filter" =>
        LET a == last.arg.a
            b == last.arg.b
        IN  /\ last.value.eq <=> (a.can_id = b.can_id /\ a.can_mask = b.can_mask)
            /\ last.value.eq => last.value.hash_a = last.value.hash_b
            /\ (a.can_id # b.can_id \/ a.can_mask # b.can_mask)
                  => ~last.value.eq

C9_Witness ==
    /\ last.op = "can_filter"
    /\ last.arg.a.can_id = last.arg.b.can_id
    /\ last.arg.a.can_mask # last.arg.b.can_mask
    /\ ~last.value.eq

(***************************************************************************)
(* C10: on the non-supporting platform setsockopt_wrapper fails fatally    *)
(* if and only if level is SOL_CAN_RAW = 0xFFFFF + 1; at any other level   *)
(* it issues exactly one native setsockopt with its arguments unchanged    *)
(* and returns what that call returns.                                     *)
(***************************************************************************)
C10_SetsockoptGuard ==
    (Stub /\ last.op = "setsockopt_wrapper") =>
        /\ SOL_CAN_RAW = 1048575 + 1
        /\ (last.result = "panic") <=> (last.arg.level = SOL_CAN_RAW)
        /\ last.result = "panic" => last.calls = << >>
        /\ last.arg.level # SOL_CAN_RAW =>
              /\ last.result = "Ok"
              /\ Len(last.calls) = 1
              /\ last.calls[1].sys = "setsockopt"
              /\ last.calls[1].fd = last.arg.socket
              /\ last.calls[1].arg = <<last.arg.level, last.arg.name,
                                       last.arg.value, last.arg.option_len>>
              /\ last.value = [ret |-> last.calls[1].ret.n]

C10_Witness ==
    /\ Stub
    /\ last.op = "setsockopt_wrapper"
    /\ last.arg.level = SOL_CAN_BASE
    /\ last.result = "Ok"
    /\ last.value = [ret |-> -1]

====
